---- MODULE Spec2Model ----
(***************************************************************************)
(* A model of goldbug's classical ciphers (goldbug/cipher.py).  A cipher   *)
(* instance is built by a constructor, then encrypt and decrypt are pure   *)
(* functions of (instance, text).  Texts are sequences of one-character    *)
(* strings; Python's 0-based indexing is kept inside the helpers.  A call  *)
(* either returns a value, Ok(v), or raises, Raise(e).                     *)
(***************************************************************************)
EXTENDS Integers, Sequences, FiniteSets, TLC

VARIABLES self,   \* the cipher instance, NoInstance before/without construction
          pc,     \* "start", "constructed", "failed", "encrypted", "decrypted",
                  \* "reencrypted", "deciphered", and a call in progress
          text,   \* the argument of the first call made on the instance
          enc,    \* result of encrypt(text), or of the function called on text
          dec,    \* result of decrypt(enc.val)
          enc2    \* result of encrypt(enc.val)

vars == <<self, pc, text, enc, dec, enc2>>

----------------------------------------------------------------------------
(* Bounds of the model *)
MaxLen == 3        \* longest text handed to encrypt
MaxPeriod == 3     \* largest Bifid/Trifid period

----------------------------------------------------------------------------
(* Results of calls and Python string helpers *)

Ok(v) == [exc |-> "None", val |-> v]
Raise(e) == [exc |-> e, val |-> <<>>]
NotCalled == [exc |-> "NotCalled", val |-> <<>>]
NoInstance == [class |-> "None"]

IsOk(r) == r.exc = "None"
Raised(r) == r.exc \notin {"None", "NotCalled"}

ascii_lowercase == <<"a","b","c","d","e","f","g","h","i","j","k","l","m",
                     "n","o","p","q","r","s","t","u","v","w","x","y","z">>
ascii_uppercase == <<"A","B","C","D","E","F","G","H","I","J","K","L","M",
                     "N","O","P","Q","R","S","T","U","V","W","X","Y","Z">>

Range(s) == {s[i] : i \in 1..Len(s)}

\* s.index(c), 0-based; only used where c occurs in s
index(s, c) == (CHOOSE i \in 1..Len(s) : s[i] = c /\ \A j \in 1..(i-1) : s[j] # c) - 1

isupper(c) == c \in Range(ascii_uppercase)
lower(c) == IF isupper(c) THEN ascii_lowercase[index(ascii_uppercase, c) + 1] ELSE c
upper(c) == IF c \in Range(ascii_lowercase)
            THEN ascii_uppercase[index(ascii_lowercase, c) + 1] ELSE c
str_lower(s) == [i \in 1..Len(s) |-> lower(s[i])]

\* s[a:b] for 0 <= a
Slice(s, a, b) == SubSeq(s, a + 1, IF b > Len(s) THEN Len(s) ELSE b)

\* all texts of length at most n over the character set S
TextsOver(S, n) == UNION {[1..k -> S] : k \in 0..n}

\* order-preserving removal of repeated characters
Dedup(s) ==
    LET keep == {i \in 1..Len(s) : \A j \in 1..(i - 1) : s[j] # s[i]}
    IN [m \in 1..Cardinality(keep) |->
           s[CHOOSE i \in keep : Cardinality({j \in keep : j < i}) = m - 1]]

----------------------------------------------------------------------------
(* util.Polybius: the coordinate square/cube.  Seed characters first, then *)
(* the rest of the alphabet; contents[i] has the base-side digits of i as  *)
(* its coordinates, row first.                                             *)

Pow(b, e) == IF e = 2 THEN b * b ELSE b * b * b

PolybiusSide(n, d) == IF \E L \in 1..n : Pow(L, d) = n
                      THEN CHOOSE L \in 1..n : Pow(L, d) = n ELSE 0

Polybius(key, alphabet, dimensions) ==
    LET contents == Dedup(key \o alphabet)
        L == PolybiusSide(Len(contents), dimensions)
    IN IF L = 0 THEN Raise("ValueError")
       ELSE Ok([contents |-> contents, dimensions |-> dimensions, side |-> L])

PolybiusHas(p, c) == c \in Range(p.contents)

\* p[c] for a character c: its coordinate tuple
PolybiusCoord(p, c) ==
    LET i == index(p.contents, c)
    IN IF p.dimensions = 2 THEN <<i \div p.side, i % p.side>>
       ELSE <<i \div (p.side * p.side), (i \div p.side) % p.side, i % p.side>>

\* p[co] for a coordinate tuple co: the character there
PolybiusChar(p, co) ==
    IF p.dimensions = 2 THEN p.contents[co[1] * p.side + co[2] + 1]
    ELSE p.contents[(co[1] * p.side + co[2]) * p.side + co[3] + 1]

----------------------------------------------------------------------------
(* Bifid and Trifid *)

Bifid__encrypt_block(slf, t) ==
    LET p == slf.polybius
        d == p.dimensions
        s == str_lower(t)
        n == Len(s)
    IN IF \E i \in 1..n : ~PolybiusHas(p, s[i]) THEN Raise("KeyError")
       ELSE LET coords == [i \in 1..n |-> PolybiusCoord(p, s[i])]
                \* sum(tuple(zip(*coords)), ()): the d coordinate rows, joined
                flat == [j \in 1..(d * n) |->
                            coords[((j - 1) % n) + 1][((j - 1) \div n) + 1]]
            IN Ok([i \in 1..n |->
                      PolybiusChar(p, SubSeq(flat, (i - 1) * d + 1, i * d))])

Bifid__decrypt_block(slf, t) ==
    LET p == slf.polybius
        d == p.dimensions
        n == Len(t)
    IN IF \E i \in 1..n : ~PolybiusHas(p, t[i]) THEN Raise("KeyError")
       ELSE LET coords == [j \in 1..(d * n) |->
                              PolybiusCoord(p, t[((j - 1) \div d) + 1])[((j - 1) % d) + 1]]
                rowlen == Len(coords) \div d
            IN \* range(0, len(coords), rowlen) raises for a step of zero
               IF rowlen = 0 THEN Raise("ValueError")
               ELSE Ok([k \in 1..rowlen |->
                          PolybiusChar(p, [r \in 1..d |-> coords[(r - 1) * rowlen + k]])])

\* ''.join(block(text[i*period:(i+1)*period]) for i in range(i, count))
RECURSIVE BifidBlocks(_, _, _, _, _)
BifidBlocks(slf, t, i, count, decrypting) ==
    IF i >= count THEN Ok(<<>>)
    ELSE LET piece == Slice(t, i * slf.period, (i + 1) * slf.period)
             head == IF decrypting THEN Bifid__decrypt_block(slf, piece)
                     ELSE Bifid__encrypt_block(slf, piece)
             rest == BifidBlocks(slf, t, i + 1, count, decrypting)
         IN IF ~IsOk(head) THEN head
            ELSE IF ~IsOk(rest) THEN rest
            ELSE Ok(head.val \o rest.val)

Bifid_encrypt_fn(slf, t) ==
    IF slf.period > 0
    THEN BifidBlocks(slf, t, 0, Len(t) \div slf.period + 1, FALSE)
    ELSE Bifid__encrypt_block(slf, t)

Bifid_decrypt_fn(slf, t) ==
    IF slf.period > 0
    THEN BifidBlocks(slf, t, 0, Len(t) \div slf.period + 1, TRUE)
    ELSE Bifid__decrypt_block(slf, t)

\* key strings handed to the constructors: squares of side 2 and 3, a cube of side 2
BifidKeys == { <<"a","b","c","d">>, <<"c","a","d","b">>,
               <<"b","g","w","k","z","q","p","n","d">> }
TrifidKeys == { <<"a","b","c","d","e","f","g","h">>,
                <<"h","b","e","a","g","d","c","f">> }
Periods == (-1)..MaxPeriod

Fresh(inst) ==
    /\ self' = inst
    /\ pc' = "constructed"
    /\ text' = <<>>
    /\ enc' = NotCalled
    /\ dec' = NotCalled
    /\ enc2' = NotCalled

Failed ==
    /\ self' = NoInstance
    /\ pc' = "failed"
    /\ UNCHANGED <<text, enc, dec, enc2>>

Bifid__init__ ==
    /\ pc = "start"
    /\ \E key \in BifidKeys \cup TrifidKeys, period \in Periods :
          LET sq == Polybius(<<>>, key, 2)
          IN IF ~IsOk(sq) \/ sq.val.dimensions # 2 THEN Failed
             ELSE Fresh([class |-> "Bifid", polybius |-> sq.val, period |-> period])

Trifid__init__ ==
    /\ pc = "start"
    /\ \E key \in BifidKeys \cup TrifidKeys, period \in Periods :
          LET cube == Polybius(<<>>, key, 3)
          IN IF ~IsOk(cube) \/ cube.val.dimensions # 3 THEN Failed
             ELSE Fresh([class |-> "Trifid", polybius |-> cube.val, period |-> period])

Bifid_encrypt ==
    /\ pc = "constructed"
    /\ self.class \in {"Bifid", "Trifid"}
    /\ \E t \in TextsOver(Range(self.polybius.contents), MaxLen) :
          /\ text' = t
          /\ enc' = Bifid_encrypt_fn(self, t)
    /\ pc' = "encrypted"
    /\ UNCHANGED <<self, dec, enc2>>

Bifid_decrypt ==
    /\ pc = "encrypted"
    /\ self.class \in {"Bifid", "Trifid"}
    /\ IsOk(enc)
    /\ dec' = Bifid_decrypt_fn(self, enc.val)
    /\ pc' = "decrypted"
    /\ UNCHANGED <<self, text, enc, enc2>>

----------------------------------------------------------------------------
(* RailFence *)

MaxRails == 6      \* largest rail-fence key
MaxRailLen == 20   \* longest text handed to the rail fence

\* rounding down where the code rounds up
Ceil_floor(a, b) == a \div b
Ceil(a, b) == -((-a) \div b)      \* math.ceil(float(a) / b) for b > 0

\* list(range(key - 1)) + list(range(key - 1, 0, -1)), the cycle of rail indices
RailFence_indices(key) ==
    [i \in 1..(key - 1) |-> i - 1] \o [i \in 1..(key - 1) |-> key - i]

\* the rail of the j-th character (j from 0): itertools.cycle over the indices
RailOf(key, j) ==
    LET cyc == RailFence_indices(key) IN cyc[(j % Len(cyc)) + 1]

\* the characters of t[1..m] that fall on rail r, in order
RECURSIVE RailChars(_, _, _, _)
RailChars(key, t, r, m) ==
    IF m = 0 THEN <<>>
    ELSE LET front == RailChars(key, t, r, m - 1)
         IN IF RailOf(key, m - 1) = r THEN Append(front, t[m]) ELSE front

RECURSIVE Concat(_, _)
Concat(seqs, m) == IF m = 0 THEN <<>> ELSE Concat(seqs, m - 1) \o seqs[m]

RailFence_encrypt_fn(slf, t) ==
    IF slf.key = 1 THEN Ok(t)
    ELSE LET rails == [r \in 1..slf.key |-> RailChars(slf.key, t, r - 1, Len(t))]
         IN Ok(Concat(rails, slf.key))

\* rowend - rowstart of interior row i: descending plus ascending limb
RailFence_rowlen_flat(key, n, i) ==
    Ceil(n - i, (key - 1) * 2) + Ceil(n - i, (key - 1) * 2)
RailFence_rowlen(key, n, i) ==
    Ceil(n - i, (key - 1) * 2) + Ceil(n - i - (key - i - 1) * 2, (key - 1) * 2)

\* rowstart of row i (from 0), following the running rowend of the loop
RECURSIVE RailFence_rowstart(_, _, _)
RailFence_rowstart(key, n, i) ==
    IF i = 0 THEN 0
    ELSE IF i = 1 THEN Ceil(n, (key - 1) * 2)
    ELSE RailFence_rowstart(key, n, i - 1) + RailFence_rowlen(key, n, i - 1)

RailFence_rows(key, t) ==
    [r \in 1..key |->
        IF r = key THEN Slice(t, RailFence_rowstart(key, Len(t), key - 1), Len(t))
        ELSE Slice(t, RailFence_rowstart(key, Len(t), r - 1),
                      RailFence_rowstart(key, Len(t), r))]

\* how many of the first j positions (0..j-1) fall on rail r
RailCount(key, r, j) == Cardinality({m \in 0..(j - 1) : RailOf(key, m) = r})

RailFence_decrypt_fn(slf, t) ==
    IF slf.key = 1 THEN Ok(t)
    ELSE LET rows == RailFence_rows(slf.key, t)
             \* position j reads the next unread character of its rail
             taken(j) == RailCount(slf.key, RailOf(slf.key, j), j)
         IN IF \E j \in 0..(Len(t) - 1) :
                   taken(j) >= Len(rows[RailOf(slf.key, j) + 1])
            THEN Raise("RuntimeError")    \* next() on an exhausted row
            ELSE Ok([j \in 1..Len(t) |->
                        rows[RailOf(slf.key, j - 1) + 1][taken(j - 1) + 1]])

RailTexts == {SubSeq(ascii_lowercase, 1, m) : m \in 0..MaxRailLen}
                 \cup TextsOver({"a", "b"}, MaxLen)

RailFence__init__ ==
    /\ pc = "start"
    /\ \E key \in 0..MaxRails :
          IF key < 1 THEN Failed
          ELSE Fresh([class |-> "RailFence", key |-> key])

RailFence_encrypt ==
    /\ pc = "constructed"
    /\ self.class = "RailFence"
    /\ \E t \in RailTexts :
          /\ text' = t
          /\ enc' = RailFence_encrypt_fn(self, t)
    /\ pc' = "encrypted"
    /\ UNCHANGED <<self, dec, enc2>>

RailFence_decrypt ==
    /\ pc = "encrypted"
    /\ self.class = "RailFence"
    /\ IsOk(enc)
    /\ dec' = RailFence_decrypt_fn(self, enc.val)
    /\ pc' = "decrypted"
    /\ UNCHANGED <<self, text, enc, enc2>>

NextRailFence == RailFence__init__ \/ RailFence_encrypt \/ RailFence_decrypt

----------------------------------------------------------------------------
(* Column *)

\* characters in code point order: ord(c) compares as Python compares characters
codepoints == <<" ", "1">> \o ascii_uppercase \o ascii_lowercase
ord(c) == index(codepoints, c)

\* sorted(s)
sorted(s) ==
    LET rank(i) == Cardinality({j \in 1..Len(s) : ord(s[j]) < ord(s[i])})
                   + Cardinality({j \in 1..(i - 1) : s[j] = s[i]})
    IN [m \in 1..Len(s) |-> s[CHOOSE i \in 1..Len(s) : rank(i) = m - 1]]

\* s.rstrip(pad) for a one-character pad
RECURSIVE rstrip(_, _)
rstrip(s, pad) == IF s # <<>> /\ s[Len(s)] = pad[1]
                  THEN rstrip(SubSeq(s, 1, Len(s) - 1), pad) ELSE s

\* pad * m
Repeat(pad, m) == [i \in 1..m |-> pad[1]]

\* t[i::step], i from 0
Stride(t, i, step) ==
    [m \in 1..((Len(t) - i + step - 1) \div step) |-> t[i + (m - 1) * step + 1]]

Column_encrypt_fn(slf, t) ==
    LET k == Len(slf.key)
        padded == IF Len(t) % k # 0
                  THEN t \o Repeat(slf.pad, k - (Len(t) % k)) ELSE t
        columns == [i \in 1..k |-> Stride(padded, i - 1, k)]
        order == sorted(slf.key)
    IN Ok(Concat([m \in 1..k |-> columns[index(slf.key, order[m]) + 1]], k))

Column_decrypt_unsorted(slf, t) ==
    LET k == Len(slf.key)
        rows == Len(t) \div k
        columns == [i \in 1..k |-> Slice(t, (i - 1) * rows, i * rows)]
    IN IF Len(t) % k # 0 THEN Raise("ValueError")
       ELSE Ok(rstrip([j \in 1..(rows * k) |->
                          columns[((j - 1) % k) + 1][((j - 1) \div k) + 1]], slf.pad))
Column_decrypt_fn(slf, t) ==
    LET k == Len(slf.key)
        rows == Len(t) \div k
        columns == [i \in 1..k |-> Slice(t, (i - 1) * rows, i * rows)]
        order == sorted(slf.key)
        \* the column filed under key character c
        restored == [i \in 1..k |-> columns[index(order, slf.key[i]) + 1]]
    IN IF Len(t) % k # 0 THEN Raise("ValueError")
       ELSE \* ''.join(''.join(row) for row in zip(*columns))
            Ok(rstrip([j \in 1..(rows * k) |->
                          restored[((j - 1) % k) + 1][((j - 1) \div k) + 1]], slf.pad))

thisisanexample == <<"t","h","i","s","i","s","a","n","e","x","a","m","p","l","e">>
tapiaxsxxhnlieesmx == <<"t","a","p","i","a","x","s","x","x","h","n","l","i","e","e","s","m","x">>
CIPHER == <<"C","I","P","H","E","R">>

ColumnKeys == { CIPHER, <<"b","a">>, <<"b","c","a">>, <<"k">>, <<>>, <<"a","b","a">> }
ColumnPads == { <<"x">>, <<"e">>, <<>>, <<"x","x">> }
ColumnTexts == {SubSeq(thisisanexample, 1, m) : m \in 0..Len(thisisanexample)}
                   \cup TextsOver({"a", "x", "e"}, MaxLen)

Column__init__ ==
    /\ pc = "start"
    /\ \E key \in ColumnKeys, pad \in ColumnPads :
          IF Len(key) < 1 THEN Failed
          ELSE IF \E i \in 1..Len(key) :
                     Cardinality({j \in 1..Len(key) : key[j] = key[i]}) > 1
          THEN Failed
          ELSE IF Len(pad) # 1 THEN Failed
          ELSE Fresh([class |-> "Column", key |-> key, pad |-> pad])

Column_encrypt ==
    /\ pc = "constructed"
    /\ self.class = "Column"
    /\ \E t \in ColumnTexts :
          /\ text' = t
          /\ enc' = Column_encrypt_fn(self, t)
    /\ pc' = "encrypted"
    /\ UNCHANGED <<self, dec, enc2>>

Column_decrypt ==
    /\ pc = "encrypted"
    /\ self.class = "Column"
    /\ IsOk(enc)
    /\ dec' = Column_decrypt_fn(self, enc.val)
    /\ pc' = "decrypted"
    /\ UNCHANGED <<self, text, enc, enc2>>

NextColumn == Column__init__ \/ Column_encrypt \/ Column_decrypt

----------------------------------------------------------------------------
(* MonoalphabeticSubstitutionCipher and its subclasses.  A dict is a       *)
(* function from its keys.                                                 *)

\* dict(zip(ks, vs)): pairs up to the shorter length, a later pair wins
DictZip(ks, vs) ==
    LET n == IF Len(ks) < Len(vs) THEN Len(ks) ELSE Len(vs)
    IN [c \in {ks[i] : i \in 1..n} |->
           vs[CHOOSE i \in 1..n : ks[i] = c /\ \A j \in (i + 1)..n : ks[j] # c]]

reversed(s) == [i \in 1..Len(s) |-> s[Len(s) + 1 - i]]

\* one character through mapping.get(c.lower(), c), then re-cased like c
MonoChar_nocase(mapping, c) ==
    IF lower(c) \in DOMAIN mapping THEN mapping[lower(c)] ELSE c
MonoChar(mapping, c) ==
    LET m == IF lower(c) \in DOMAIN mapping THEN mapping[lower(c)] ELSE c
    IN IF isupper(c) THEN upper(m) ELSE lower(m)

Mono_encrypt_fn(slf, t) == Ok([i \in 1..Len(t) |-> MonoChar(slf.encrypt_mapping, t[i])])
Mono_decrypt_fn(slf, t) == Ok([i \in 1..Len(t) |-> MonoChar(slf.decrypt_mapping, t[i])])

\* util.mmi(a, m): the multiplicative inverse of a modulo m, or an error
HasInverse(a, m) == \E x \in 1..(m - 1) : (a * x) % m = 1
mmi(a, m) == IF HasInverse(a, m)
             THEN Ok(CHOOSE x \in 1..(m - 1) : (a * x) % m = 1)
             ELSE Raise("ValueError")

\* Affine.__init__: the object as it stands when __init__ returns or raises
Affine_construct_late(key, alphabet) ==
    LET a == key[1]
        b == key[2]
        L == Len(alphabet)
        inv == mmi(a, L)
        encrypt_mapping == DictZip(alphabet,
            [i \in 1..L |-> alphabet[((a * index(alphabet, alphabet[i]) + b) % L) + 1]])
        m == IF IsOk(inv) THEN inv.val ELSE 0
    IN [exc |-> "None",
        obj |-> [class |-> "Affine", alphabet |-> str_lower(alphabet), key |-> key,
                 decrypt_mapping |-> DictZip(alphabet,
                     [i \in 1..L |->
                         alphabet[((m * (index(alphabet, alphabet[i]) - b)) % L) + 1]]),
                 encrypt_mapping |-> encrypt_mapping]]
Affine_construct(key, alphabet) ==
    LET a == key[1]
        b == key[2]
        L == Len(alphabet)
        begun == [class |-> "Affine", alphabet |-> str_lower(alphabet), key |-> key]
        inv == mmi(a, L)
    IN IF ~IsOk(inv) THEN [exc |-> inv.exc, obj |-> begun]
       ELSE [exc |-> "None",
             obj |-> [class |-> "Affine", alphabet |-> str_lower(alphabet), key |-> key,
                      decrypt_mapping |-> DictZip(alphabet,
                          [i \in 1..L |->
                              alphabet[((inv.val * (index(alphabet, alphabet[i]) - b)) % L) + 1]]),
                      encrypt_mapping |-> DictZip(alphabet,
                          [i \in 1..L |->
                              alphabet[((a * index(alphabet, alphabet[i]) + b) % L) + 1]])]]

Atbash_construct(alphabet) ==
    LET al == str_lower(alphabet)
        mapping == DictZip(al, reversed(al))
    IN [class |-> "Atbash", alphabet |-> al,
        encrypt_mapping |-> mapping, decrypt_mapping |-> mapping]

Caesar_construct(class, key) ==
    LET shifted == [i \in 1..26 |-> ascii_lowercase[(((i - 1) + key) % 26) + 1]]
    IN [class |-> class, key |-> key % 26,
        encrypt_mapping |-> DictZip(ascii_lowercase, shifted),
        decrypt_mapping |-> DictZip(shifted, ascii_lowercase)]

\* self.encrypt_mapping[key[i]] = key[(i + len(key) // 2) % len(key)], in order of i
KamaSutra_construct(key) ==
    LET n == Len(key)
        mapping == DictZip(key, [i \in 1..n |-> key[(((i - 1) + n \div 2) % n) + 1]])
    IN [class |-> "KamaSutra", key |-> key,
        encrypt_mapping |-> mapping, decrypt_mapping |-> mapping]

\* the loop reads the argument key, not self.key
Keyword_construct(key) ==
    LET m == Dedup(key \o ascii_lowercase)
    IN [class |-> "Keyword", key |-> str_lower(key),
        encrypt_mapping |-> DictZip(ascii_lowercase, m),
        decrypt_mapping |-> DictZip(m, ascii_lowercase)]

\* dict((b, a) for (a, b) in key.items()), for a key that no two characters share a value in
Simple_construct(key) ==
    [class |-> "Simple", key |-> key, encrypt_mapping |-> key,
     decrypt_mapping |-> [b \in {key[a] : a \in DOMAIN key} |->
                             CHOOSE a \in DOMAIN key : key[a] = b]]

MaxCoef == 7       \* largest multiplier a of an Affine key
MaxShift == 2      \* largest increment b of an Affine key

abcde == SubSeq(ascii_lowercase, 1, 5)
abcdef == SubSeq(ascii_lowercase, 1, 6)
AffineAlphabets == { ascii_lowercase, abcde, abcdef }
AffineKeys == { <<a, b>> : a \in 0..MaxCoef, b \in (-1)..MaxShift }
AtbashAlphabets == { ascii_lowercase, abcde, ascii_uppercase }
CaesarKeys == { -1, 0, 1, 3, 13, 25, 27 }
vqajflymsbckuhzdxtenorpwig ==
    <<"v","q","a","j","f","l","y","m","s","b","c","k","u",
      "h","z","d","x","t","e","n","o","r","p","w","i","g">>
KamaSutraKeys == { vqajflymsbckuhzdxtenorpwig, <<"a","b">>, <<"a","b","c">>,
                   <<"s","a","x","b">>, <<"a","B">>, <<>> }
KeywordKeys == { <<"s","e","c","r","e","t">>, <<"S","E","C","R","E","T">>,
                 <<"z","a","b">>, <<>> }
SimpleKeys == { DictZip(<<"a","b","s">>, <<"b","s","a">>),
                DictZip(<<"a","b">>, <<"1","x">>),
                DictZip(<<"a","B"," ">>, <<"Z","a","x">>) }
MonoClasses == {"Affine", "Atbash", "Caesar", "Rot13", "Keyword", "KamaSutra", "Simple"}
MonoChars == {"a", "s", "B", "x", " ", "1"}
MonoTexts == TextsOver(MonoChars, MaxLen) \cup {ascii_lowercase, ascii_uppercase}

Affine__init__ ==
    /\ pc = "start"
    /\ \E key \in AffineKeys, alphabet \in AffineAlphabets :
          LET made == Affine_construct(key, alphabet)
          IN IF made.exc # "None"
             THEN /\ self' = made.obj
                  /\ pc' = "failed"
                  /\ UNCHANGED <<text, enc, dec, enc2>>
             ELSE Fresh(made.obj)

Atbash__init__ ==
    /\ pc = "start"
    /\ \E alphabet \in AtbashAlphabets : Fresh(Atbash_construct(alphabet))

Caesar__init__ ==
    /\ pc = "start"
    /\ \E key \in CaesarKeys : Fresh(Caesar_construct("Caesar", key))

Rot13__init__ ==
    /\ pc = "start"
    /\ Fresh(Caesar_construct("Rot13", 13))

KamaSutra__init__ ==
    /\ pc = "start"
    /\ \E key \in KamaSutraKeys : Fresh(KamaSutra_construct(key))

Keyword__init__ ==
    /\ pc = "start"
    /\ \E key \in KeywordKeys : Fresh(Keyword_construct(key))

Simple__init__ ==
    /\ pc = "start"
    /\ \E key \in SimpleKeys : Fresh(Simple_construct(key))

Mono_encrypt ==
    /\ pc = "constructed"
    /\ self.class \in MonoClasses
    /\ \E t \in MonoTexts :
          /\ text' = t
          /\ enc' = Mono_encrypt_fn(self, t)
    /\ pc' = "encrypted"
    /\ UNCHANGED <<self, dec, enc2>>

Mono_decrypt ==
    /\ pc = "encrypted"
    /\ self.class \in MonoClasses
    /\ IsOk(enc)
    /\ dec' = Mono_decrypt_fn(self, enc.val)
    /\ pc' = "decrypted"
    /\ UNCHANGED <<self, text, enc, enc2>>

\* the ciphertext handed to encrypt once more
Mono_encrypt_again ==
    /\ pc = "encrypted"
    /\ self.class \in MonoClasses
    /\ IsOk(enc)
    /\ enc2' = Mono_encrypt_fn(self, enc.val)
    /\ pc' = "reencrypted"
    /\ UNCHANGED <<self, text, enc, dec>>

NextMono ==
    \/ Affine__init__ \/ Atbash__init__ \/ Caesar__init__ \/ Rot13__init__
    \/ KamaSutra__init__ \/ Keyword__init__ \/ Simple__init__
    \/ Mono_encrypt \/ Mono_decrypt \/ Mono_encrypt_again

----------------------------------------------------------------------------
(* TwoSquare and FourSquare *)

abcd == SubSeq(ascii_lowercase, 1, 4)
abcdefghi == SubSeq(ascii_lowercase, 1, 9)
wxyz == SubSeq(ascii_lowercase, 23, 26)

\* the Polybius squares handed to the constructors: side 2, side 3, and a cube
Squares2 == { Polybius(seed, abcd, 2).val : seed \in { <<>>, <<"c","a">>, <<"d","b","c">> } }
Squares3 == { Polybius(seed, abcdefghi, 2).val :
                 seed \in { <<>>, <<"g","d","b">>, <<"i","f","a","c","e">> } }
SquaresW == { Polybius(seed, wxyz, 2).val : seed \in { <<>>, <<"y","w">> } }
Cube2 == Polybius(<<>>, SubSeq(ascii_lowercase, 1, 8), 3).val

\* zip(text, text) over one iterator: the i-th pair, i from 1
PairCount(t) == Len(t) \div 2

TwoSquare_pair_typo(slf, a, b) ==
    LET co1 == PolybiusCoord(slf.keys[1], a)
        co2 == PolybiusCoord(slf.keys[2], b)
    IN IF slf.horizontal
       THEN IF co1[1] = co2[1] THEN <<a, b>>
            ELSE <<PolybiusChar(slf.keys[1], <<co2[1], co1[2]>>),
                   PolybiusChar(slf.keys[2], <<co2[1], co2[2]>>)>>
       ELSE IF co1[2] = co2[2] THEN <<a, b>>
            ELSE <<PolybiusChar(slf.keys[1], <<co1[1], co2[2]>>),
                   PolybiusChar(slf.keys[2], <<co2[1], co2[2]>>)>>
\* one digraph (a, b): r1, c1 = keys[0][a]; r2, c2 = keys[1][b]
TwoSquare_pair(slf, a, b) ==
    LET co1 == PolybiusCoord(slf.keys[1], a)
        co2 == PolybiusCoord(slf.keys[2], b)
    IN IF slf.horizontal
       THEN IF co1[1] = co2[1] THEN <<a, b>>
            ELSE <<PolybiusChar(slf.keys[1], <<co2[1], co1[2]>>),
                   PolybiusChar(slf.keys[2], <<co1[1], co2[2]>>)>>
       ELSE IF co1[2] = co2[2] THEN <<a, b>>
            ELSE <<PolybiusChar(slf.keys[1], <<co1[1], co2[2]>>),
                   PolybiusChar(slf.keys[2], <<co2[1], co1[2]>>)>>

TwoSquare_encrypt_fn(slf, t) ==
    LET lastchar == IF Len(t) % 2 = 1 THEN <<t[Len(t)]>> ELSE <<>>
        n == PairCount(t)
    IN IF \E i \in 1..n : \/ ~PolybiusHas(slf.keys[1], t[2 * i - 1])
                          \/ ~PolybiusHas(slf.keys[2], t[2 * i])
       THEN Raise("KeyError")
       ELSE Ok([j \in 1..(2 * n) |->
                   TwoSquare_pair(slf, t[2 * ((j + 1) \div 2) - 1],
                                       t[2 * ((j + 1) \div 2)])[2 - (j % 2)]]
               \o lastchar)

TwoSquare_decrypt_fn(slf, t) == TwoSquare_encrypt_fn(slf, t)

TwoSquare__init__ ==
    /\ pc = "start"
    /\ \E k1 \in Squares2 \cup Squares3, k2 \in Squares2 \cup Squares3,
          horizontal \in BOOLEAN :
          IF Range(k1.contents) # Range(k2.contents) THEN Failed
          ELSE Fresh([class |-> "TwoSquare", keys |-> <<k1, k2>>,
                      horizontal |-> horizontal])

TwoSquare_encrypt ==
    /\ pc = "constructed"
    /\ self.class = "TwoSquare"
    /\ \E t \in TextsOver(Range(self.keys[1].contents), MaxLen) :
          /\ text' = t
          /\ enc' = TwoSquare_encrypt_fn(self, t)
    /\ pc' = "encrypted"
    /\ UNCHANGED <<self, dec, enc2>>

TwoSquare_decrypt ==
    /\ pc = "encrypted"
    /\ self.class = "TwoSquare"
    /\ IsOk(enc)
    /\ dec' = TwoSquare_decrypt_fn(self, enc.val)
    /\ pc' = "decrypted"
    /\ UNCHANGED <<self, text, enc, enc2>>

\* the ciphertext handed to encrypt once more
TwoSquare_encrypt_again ==
    /\ pc \in {"encrypted", "decrypted"}
    /\ self.class = "TwoSquare"
    /\ IsOk(enc)
    /\ enc2' = TwoSquare_encrypt_fn(self, enc.val)
    /\ pc' = "reencrypted"
    /\ UNCHANGED <<self, text, enc, dec>>

NextTwoSquare ==
    \/ TwoSquare__init__ \/ TwoSquare_encrypt
    \/ TwoSquare_decrypt \/ TwoSquare_encrypt_again

\* len(square): the number of its cells
PolybiusLen(p) == Len(p.contents)

FourSquare_encrypt_fn(slf, t) ==
    LET padded == IF Len(t) % 2 = 1 THEN t \o slf.padding ELSE t
        n == PairCount(padded)
        pair(i) ==
            LET co1 == PolybiusCoord(slf.alphabet, padded[2 * i - 1])
                co2 == PolybiusCoord(slf.alphabet, padded[2 * i])
            IN <<PolybiusChar(slf.keys[1], <<co1[1], co2[2]>>),
                 PolybiusChar(slf.keys[2], <<co2[1], co1[2]>>)>>
    IN IF \E i \in 1..Len(padded) : ~PolybiusHas(slf.alphabet, padded[i])
       THEN Raise("KeyError")
       ELSE Ok([j \in 1..(2 * n) |-> pair((j + 1) \div 2)[2 - (j % 2)]])

FourSquare_decrypt_same(slf, t) ==
    LET n == PairCount(t)
        pair(i) ==
            LET co1 == PolybiusCoord(slf.keys[1], t[2 * i - 1])
                co2 == PolybiusCoord(slf.keys[2], t[2 * i])
            IN <<PolybiusChar(slf.alphabet, <<co1[1], co1[2]>>),
                 PolybiusChar(slf.alphabet, <<co2[1], co2[2]>>)>>
    IN IF \E i \in 1..n : \/ ~PolybiusHas(slf.keys[1], t[2 * i - 1])
                          \/ ~PolybiusHas(slf.keys[2], t[2 * i])
       THEN Raise("KeyError")
       ELSE Ok([j \in 1..(2 * n) |-> pair((j + 1) \div 2)[2 - (j % 2)]])
FourSquare_decrypt_fn(slf, t) ==
    LET n == PairCount(t)
        pair(i) ==
            LET co1 == PolybiusCoord(slf.keys[1], t[2 * i - 1])
                co2 == PolybiusCoord(slf.keys[2], t[2 * i])
            IN <<PolybiusChar(slf.alphabet, <<co1[1], co2[2]>>),
                 PolybiusChar(slf.alphabet, <<co2[1], co1[2]>>)>>
    IN IF \E i \in 1..n : \/ ~PolybiusHas(slf.keys[1], t[2 * i - 1])
                          \/ ~PolybiusHas(slf.keys[2], t[2 * i])
       THEN Raise("KeyError")
       ELSE Ok([j \in 1..(2 * n) |-> pair((j + 1) \div 2)[2 - (j % 2)]])

FourSquareKeys == Squares2 \cup Squares3 \cup SquaresW \cup {Cube2}
FourSquareAlphabets == { Polybius(<<>>, abcd, 2).val, Polybius(<<>>, abcdefghi, 2).val }
FourSquarePaddings == { <<"a">>, <<"d">>, <<"x">>, <<>> }

FourSquare__init__ ==
    /\ pc = "start"
    /\ \E keys \in (FourSquareKeys \X FourSquareKeys) \cup {<<Cube2>>},
          alphabet \in FourSquareAlphabets, padding \in FourSquarePaddings :
          IF Len(keys) # 2 THEN Failed
          ELSE IF \/ PolybiusLen(keys[1]) # PolybiusLen(keys[2])
                  \/ PolybiusLen(keys[1]) # PolybiusLen(alphabet)
          THEN Failed
          ELSE IF \/ keys[1].dimensions # 2 \/ keys[2].dimensions # 2
                  \/ alphabet.dimensions # 2
          THEN Failed
          ELSE IF Len(padding) # 1 THEN Failed
          ELSE IF ~PolybiusHas(alphabet, padding[1]) THEN Failed
          ELSE Fresh([class |-> "FourSquare", keys |-> keys,
                      alphabet |-> alphabet, padding |-> padding])

FourSquare_encrypt ==
    /\ pc = "constructed"
    /\ self.class = "FourSquare"
    /\ \E t \in TextsOver(Range(self.alphabet.contents), MaxLen) :
          /\ text' = t
          /\ enc' = FourSquare_encrypt_fn(self, t)
    /\ pc' = "encrypted"
    /\ UNCHANGED <<self, dec, enc2>>

FourSquare_decrypt ==
    /\ pc = "encrypted"
    /\ self.class = "FourSquare"
    /\ IsOk(enc)
    /\ dec' = FourSquare_decrypt_fn(self, enc.val)
    /\ pc' = "decrypted"
    /\ UNCHANGED <<self, text, enc, enc2>>

\* ciphertexts of the caller's own, of either parity: first characters of
\* pairs from the first key square, second characters from the second
FourSquareCipherChars == {"a", "c", "w", "y"}
FourSquareCiphertexts(slf) ==
    {t \in TextsOver(FourSquareCipherChars, MaxLen) :
        \A m \in 1..Len(t) :
            PolybiusHas(slf.keys[IF m % 2 = 1 THEN 1 ELSE 2], t[m])}

\* decrypt called on a new instance with a ciphertext that encrypt did not make
FourSquare_decrypt_text ==
    /\ pc = "constructed"
    /\ self.class = "FourSquare"
    /\ \E t \in FourSquareCiphertexts(self) :
          /\ text' = t
          /\ dec' = FourSquare_decrypt_fn(self, t)
    /\ pc' = "deciphered"
    /\ UNCHANGED <<self, enc, enc2>>

NextFourSquare ==
    \/ FourSquare__init__ \/ FourSquare_encrypt \/ FourSquare_decrypt
    \/ FourSquare_decrypt_text

----------------------------------------------------------------------------
(* Playfair *)

\* ''.join(omitted.get(c, c) for c in text): omitted maps a character to a string
RECURSIVE SubstituteOmitted(_, _)
SubstituteOmitted(omitted, t) ==
    IF t = <<>> THEN <<>>
    ELSE (IF t[1] \in DOMAIN omitted THEN omitted[t[1]] ELSE <<t[1]>>)
         \o SubstituteOmitted(omitted, Tail(t))

\* while breaker + breaker in text: text = text.replace(breaker + breaker, breaker)
RECURSIVE CollapseBreaker(_, _)
CollapseBreaker(t, breaker) ==
    IF Len(t) < 2 THEN t
    ELSE IF t[1] = breaker /\ t[2] = breaker THEN CollapseBreaker(Tail(t), breaker)
    ELSE <<t[1]>> \o CollapseBreaker(Tail(t), breaker)

\* (c for c in text.lower() if c in self.alphabet)
FilterAlphabet(t, alphabet) ==
    SelectSeq(str_lower(t), LAMBDA c : c \in Range(alphabet))

\* the digraphs the loop of __plain_pairs yields from position i on, flattened.
\* next(plain) on the exhausted generator raises StopIteration inside the
\* generator: a RuntimeError where PEP 479 is in force (pep479), the silent
\* end of the generator in the older interpreters the module also supports.
RECURSIVE Playfair_pairs(_, _, _, _)
Playfair_pairs(plain, i, breaker, pep479) ==
    IF i + 1 > Len(plain) THEN Ok(<<>>)
    ELSE LET a == plain[i]
             b == plain[i + 1]
         IN IF a # b
            THEN LET rest == Playfair_pairs(plain, i + 2, breaker, pep479)
                 IN IF IsOk(rest) THEN Ok(<<a, b>> \o rest.val) ELSE rest
            ELSE LET \* first position from i+2 on that differs from b
                     stops == {m \in (i + 2)..Len(plain) : plain[m] # b}
                     j == IF stops = {} THEN Len(plain) + 1
                          ELSE CHOOSE m \in stops : \A o \in stops : m <= o
                     broken == <<a, breaker>>
                               \o [m \in 1..(2 * (j - (i + 2))) |->
                                      IF m % 2 = 1 THEN b ELSE breaker]
                 IN IF j > Len(plain)
                    THEN IF pep479 THEN Raise("RuntimeError") ELSE Ok(broken)
                    ELSE LET rest == Playfair_pairs(plain, j + 1, breaker, pep479)
                         IN IF IsOk(rest)
                            THEN Ok(broken \o <<b, plain[j]>> \o rest.val)
                            ELSE rest

Playfair__plain_pairs(slf, t, pep479) ==
    LET converted == SubstituteOmitted(slf.omitted, t)
        collapsed == CollapseBreaker(converted, slf.breaker[1])
        padded == collapsed \o slf.padding
        plain == FilterAlphabet(padded, slf.alphabet)
    IN Playfair_pairs(plain, 1, slf.breaker[1], pep479)

\* __polyb: one digraph through the square
Playfair__polyb(slf, x, y, decrypting) ==
    LET p == slf.polybius
        co1 == PolybiusCoord(p, x)
        co2 == PolybiusCoord(p, y)
        r1 == co1[1]
        c1 == co1[2]
        r2 == co2[1]
        c2 == co2[2]
        step == IF decrypting THEN -1 ELSE 1
    IN IF r1 # r2 /\ c1 # c2
       THEN <<PolybiusChar(p, <<r1, c2>>), PolybiusChar(p, <<r2, c1>>)>>
       ELSE IF r1 = r2
       THEN <<PolybiusChar(p, <<r1, (c1 + step) % 5>>),
              PolybiusChar(p, <<r2, (c2 + step) % 5>>)>>
       ELSE <<PolybiusChar(p, <<(r1 + step) % 5, c1>>),
              PolybiusChar(p, <<(r2 + step) % 5, c2>>)>>

Playfair_encrypt_fn(slf, t, pep479) ==
    LET pairs == Playfair__plain_pairs(slf, t, pep479)
    IN IF ~IsOk(pairs) THEN pairs
       ELSE Ok([m \in 1..Len(pairs.val) |->
                   Playfair__polyb(slf, pairs.val[2 * ((m + 1) \div 2) - 1],
                                   pairs.val[2 * ((m + 1) \div 2)], FALSE)[2 - (m % 2)]])

\* a decrypt that lets a digraph of two identical letters through
Playfair_decrypt_lenient(slf, t) ==
    LET cipher == [m \in 1..Len(t) |->
                      IF t[m] \in DOMAIN slf.omitted THEN slf.omitted[t[m]] ELSE <<t[m]>>]
        n == Len(t) \div 2
        unknown(k) == \E m \in {2 * k - 1, 2 * k} :
                         \/ Len(cipher[m]) # 1
                         \/ ~PolybiusHas(slf.polybius, cipher[m][1])
    IN IF Len(t) % 2 # 0 THEN Raise("ValueError")
       ELSE IF \E k \in 1..n : unknown(k) THEN Raise("KeyError")
       ELSE Ok([m \in 1..(2 * n) |->
                   Playfair__polyb(slf, cipher[2 * ((m + 1) \div 2) - 1][1],
                                   cipher[2 * ((m + 1) \div 2)][1], TRUE)[2 - (m % 2)]])
\* __cipher_pairs then __polyb, pair by pair: the first bad pair decides the error
Playfair_decrypt_fn(slf, t) ==
    LET \* omitted.get(c, c) for c in text: one string per ciphertext character
        cipher == [m \in 1..Len(t) |->
                      IF t[m] \in DOMAIN slf.omitted THEN slf.omitted[t[m]] ELSE <<t[m]>>]
        n == Len(t) \div 2
        same(k) == cipher[2 * k - 1] = cipher[2 * k]
        unknown(k) == \E m \in {2 * k - 1, 2 * k} :
                         \/ Len(cipher[m]) # 1
                         \/ ~PolybiusHas(slf.polybius, cipher[m][1])
        bad == {k \in 1..n : same(k) \/ unknown(k)}
        first == CHOOSE k \in bad : \A o \in bad : k <= o
    IN IF Len(t) % 2 # 0 THEN Raise("ValueError")
       ELSE IF bad # {} THEN (IF same(first) THEN Raise("ValueError") ELSE Raise("KeyError"))
       ELSE Ok([m \in 1..(2 * n) |->
                   Playfair__polyb(slf, cipher[2 * ((m + 1) \div 2) - 1][1],
                                   cipher[2 * ((m + 1) \div 2)][1], TRUE)[2 - (m % 2)]])

\* Playfair.__init__, up to the construction of the square
Playfair_construct(key, breaker, padding, omitted) ==
    LET om == [k \in {lower(c) : c \in DOMAIN omitted} |->
                  str_lower(omitted[CHOOSE c \in DOMAIN omitted : lower(c) = k])]
        alphabet == SelectSeq(ascii_lowercase, LAMBDA c : c \notin DOMAIN om)
        cleaned == FilterAlphabet(key, alphabet)
        square == Polybius(cleaned, alphabet, 2)
    IN IF \/ Len(alphabet) # 25
          \/ \E k \in DOMAIN om :
                \/ Len(om[k]) > 1
                \/ (Len(om[k]) = 1 /\ om[k][1] \notin Range(alphabet))
       THEN Raise("ValueError")
       ELSE IF Len(breaker) # 1 \/ breaker[1] \notin Range(alphabet) THEN Raise("ValueError")
       ELSE IF Len(padding) # 1 \/ padding[1] \notin Range(alphabet) THEN Raise("ValueError")
       ELSE IF ~IsOk(square) THEN square
       ELSE Ok([class |-> "Playfair", key |-> key, breaker |-> breaker,
                padding |-> padding, omitted |-> om, alphabet |-> alphabet,
                polybius |-> square.val])

playfair_example == <<"p","l","a","y","f","a","i","r"," ","e","x","a","m","p","l","e">>
balloon == <<"b","a","l","l","o","o","n">>
PlayfairKeys == { playfair_example, <<>> }
PlayfairBreakers == { <<"x">>, <<"q">>, <<"j">> }
PlayfairPaddings == { <<"z">>, <<"q">>, <<>> }
PlayfairOmitted == { DictZip(<<"j">>, << <<"i">> >>), DictZip(<<"Q">>, << <<>> >>),
                     DictZip(<<"j">>, << <<"j">> >>) }
PlayfairChars == {"a", "l", "x", "z", "j", "J", " "}
PlayfairTexts == TextsOver(PlayfairChars, MaxLen) \cup {balloon}

Playfair__init__ ==
    /\ pc = "start"
    /\ \E key \in PlayfairKeys, breaker \in PlayfairBreakers,
          padding \in PlayfairPaddings, omitted \in PlayfairOmitted :
          LET made == Playfair_construct(key, breaker, padding, omitted)
          IN IF IsOk(made) THEN Fresh(made.val) ELSE Failed

Playfair_encrypt ==
    /\ pc = "constructed"
    /\ self.class = "Playfair"
    /\ \E t \in PlayfairTexts, pep479 \in BOOLEAN :
          /\ text' = t
          /\ enc' = Playfair_encrypt_fn(self, t, pep479)
    /\ pc' = "encrypted"
    /\ UNCHANGED <<self, dec, enc2>>

Playfair_decrypt ==
    /\ pc = "encrypted"
    /\ self.class = "Playfair"
    /\ IsOk(enc)
    /\ dec' = Playfair_decrypt_fn(self, enc.val)
    /\ pc' = "decrypted"
    /\ UNCHANGED <<self, text, enc, enc2>>

\* ciphertexts of the caller's own: letters of the square and omitted letters
\* that stand for one
PlayfairCipherChars == {"a", "l", "i", "j", "x"}
PlayfairCiphertexts(slf) ==
    {t \in TextsOver(PlayfairCipherChars, MaxLen)
              \cup {<<"a","l","i","j">>, <<"a","l","a","a">>, <<"a","l","x","l">>} :
        \A m \in 1..Len(t) :
            \/ t[m] \in Range(slf.alphabet)
            \/ (t[m] \in DOMAIN slf.omitted /\ Len(slf.omitted[t[m]]) = 1)}

\* decrypt called on a new instance with a ciphertext that encrypt did not make
Playfair_decrypt_text ==
    /\ pc = "constructed"
    /\ self.class = "Playfair"
    /\ \E t \in PlayfairCiphertexts(self) :
          /\ text' = t
          /\ dec' = Playfair_decrypt_fn(self, t)
    /\ pc' = "deciphered"
    /\ UNCHANGED <<self, enc, enc2>>

NextPlayfair ==
    \/ Playfair__init__ \/ Playfair_encrypt \/ Playfair_decrypt
    \/ Playfair_decrypt_text

----------------------------------------------------------------------------
(* util.Matrix: a dense integer matrix, a sequence of rows.  Product,      *)
(* element-wise modulus, and the modular inverse by the adjugate and the   *)
(* inverse of the determinant.                                             *)

RECURSIVE SumSeq(_)
SumSeq(s) == IF s = <<>> THEN 0 ELSE s[1] + SumSeq(Tail(s))

MatrixRows(A) == Len(A)

\* A * B, row by column
MatrixMul(A, B) ==
    [i \in 1..Len(A) |->
        [j \in 1..Len(B[1]) |-> SumSeq([k \in 1..Len(B) |-> A[i][k] * B[k][j]])]]

\* A % m, element by element
MatrixMod(A, m) == [i \in 1..Len(A) |-> [j \in 1..Len(A[i]) |-> A[i][j] % m]]

\* A.col(j), j from 0
MatrixCol(A, j) == [i \in 1..Len(A) |-> A[i][j + 1]]

\* A without row i and column j
MatrixMinor(A, i, j) ==
    [r \in 1..(Len(A) - 1) |->
        [c \in 1..(Len(A) - 1) |->
            A[IF r < i THEN r ELSE r + 1][IF c < j THEN c ELSE c + 1]]]

\* the determinant, expanded along the first row
RECURSIVE MatrixDet(_)
MatrixDet(A) ==
    IF Len(A) = 0 THEN 1
    ELSE SumSeq([j \in 1..Len(A) |->
                    (IF j % 2 = 1 THEN 1 ELSE -1) * A[1][j]
                        * MatrixDet(MatrixMinor(A, 1, j))])

\* the transposed matrix of cofactors
MatrixAdjugate(A) ==
    [i \in 1..Len(A) |->
        [j \in 1..Len(A) |->
            (IF (i + j) % 2 = 0 THEN 1 ELSE -1) * MatrixDet(MatrixMinor(A, j, i))]]

\* pow(A, -1, m): fails when the determinant has no inverse modulo m
MatrixInverse(A, m) ==
    LET inv == mmi(MatrixDet(A) % m, m)
    IN IF ~IsOk(inv) THEN inv
       ELSE Ok(MatrixMod([i \in 1..Len(A) |->
                             [j \in 1..Len(A) |-> inv.val * MatrixAdjugate(A)[i][j]]], m))

----------------------------------------------------------------------------
(* Hill *)

\* int(round(n ** .5)) for the key lengths of the model
RoundSqrt(n) == IF n = 0 THEN 0
                ELSE CHOOSE w \in 1..n : w * w - w < n /\ n <= w * w + w

\* Hill.__init__; key is a string unless isMatrix
Hill_construct(key, isMatrix, alphabet) ==
    LET w == RoundSqrt(Len(key))
        nums == [i \in 1..Len(key) |-> index(alphabet, key[i])]
        matrix == IF isMatrix THEN key
                  ELSE [r \in 1..w |-> SubSeq(nums, (r - 1) * w + 1, r * w)]
        modulus == Len(alphabet)
        invkey == MatrixInverse(matrix, modulus)
    IN IF Cardinality(Range(alphabet)) # Len(alphabet) THEN Raise("ValueError")
       ELSE IF ~isMatrix /\ w * w # Len(key) THEN Raise("ValueError")
       ELSE IF ~isMatrix /\ \E i \in 1..Len(key) : key[i] \notin Range(alphabet)
       THEN Raise("ValueError")        \* alphabet.index(c)
       ELSE IF ~isMatrix /\ w = 0 THEN Raise("ValueError")    \* range(0, 0, 0)
       ELSE IF ~IsOk(invkey) THEN invkey
       ELSE Ok([class |-> "Hill", alphabet |-> alphabet, modulus |-> modulus,
                key |-> MatrixMod(matrix, modulus), invkey |-> invkey.val])

\* the loop of encrypt and decrypt over the chunks from position i (from 0) on
RECURSIVE Hill_chunks(_, _, _, _)
Hill_chunks(slf, M, t, i) ==
    IF i >= Len(t) THEN Ok(<<>>)
    ELSE LET piece == Slice(t, i, i + MatrixRows(M))
         IN IF \E k \in 1..Len(piece) : piece[k] \notin Range(slf.alphabet)
            THEN Raise("ValueError")
            ELSE LET chunk == [k \in 1..Len(piece) |-> <<index(slf.alphabet, piece[k])>>]
                     m == MatrixMod(MatrixMul(M, chunk), slf.modulus)
                     head == [k \in 1..Len(m) |-> slf.alphabet[MatrixCol(m, 0)[k] + 1]]
                     rest == Hill_chunks(slf, M, t, i + MatrixRows(M))
                 IN IF IsOk(rest) THEN Ok(head \o rest.val) ELSE rest

\* the chunk as a row vector times the key: not what the code computes
Hill_encrypt_rowvector(slf, t) ==
    Hill_chunks(slf, [i \in 1..Len(slf.key) |->
                         [j \in 1..Len(slf.key) |-> slf.key[j][i]]], t, 0)
Hill_encrypt_fn(slf, t) == Hill_chunks(slf, slf.key, t, 0)
Hill_decrypt_fn(slf, t) == Hill_chunks(slf, slf.invkey, t, 0)

ddcf == <<"d","d","c","f">>
help == <<"h","e","l","p">>
hiat == <<"h","i","a","t">>
gybnqkurp == <<"g","y","b","n","q","k","u","r","p">>
HillKeyStrings == { ddcf, gybnqkurp, <<"d">>, <<"a">>, <<"b","b","a","b">>,
                    <<"a","b","c","d">>, <<"a","b","c">>, <<"d","D","c","f">>, <<>> }
HillKeyMatrices == { << <<3, 3>>, <<2, 5>> >>, << <<29, 3>>, <<-24, 5>> >>,
                     << <<2, 0>>, <<0, 1>> >> }
HillAlphabets == { ascii_lowercase, abcde, <<"a","b","a">> }
HillChars == {"a", "c", "e", "t"}
\* texts already aligned to the side of the key: the caller's precondition
HillTexts(slf) ==
    {t \in TextsOver(HillChars \cap Range(slf.alphabet), MaxLen)
              \cup {help, <<"a","c","t","c","a","t">>} :
        /\ Len(t) % MatrixRows(slf.key) = 0
        /\ Range(t) \subseteq Range(slf.alphabet)}

Hill__init__ ==
    /\ pc = "start"
    /\ \E alphabet \in HillAlphabets :
          \/ \E key \in HillKeyStrings :
                LET made == Hill_construct(key, FALSE, alphabet)
                IN IF IsOk(made) THEN Fresh(made.val) ELSE Failed
          \/ \E key \in HillKeyMatrices :
                LET made == Hill_construct(key, TRUE, alphabet)
                IN IF IsOk(made) THEN Fresh(made.val) ELSE Failed

Hill_encrypt ==
    /\ pc = "constructed"
    /\ self.class = "Hill"
    /\ \E t \in HillTexts(self) :
          /\ text' = t
          /\ enc' = Hill_encrypt_fn(self, t)
    /\ pc' = "encrypted"
    /\ UNCHANGED <<self, dec, enc2>>

Hill_decrypt ==
    /\ pc = "encrypted"
    /\ self.class = "Hill"
    /\ IsOk(enc)
    /\ dec' = Hill_decrypt_fn(self, enc.val)
    /\ pc' = "decrypted"
    /\ UNCHANGED <<self, text, enc, enc2>>

NextHill == Hill__init__ \/ Hill_encrypt \/ Hill_decrypt

----------------------------------------------------------------------------
(* util.TabulaRecta: tabula[(text-char, key-char)] is the text character   *)
(* shifted by the alphabet position of the key character, shifted back in  *)
(* the reverse orientation.                                                *)

TabulaRecta(alphabet, reverse) == [alphabet |-> alphabet, reverse |-> reverse]

TabulaRecta_getitem(tabula, co) ==
    LET n == Len(tabula.alphabet)
        t == index(tabula.alphabet, co[1])
        k == index(tabula.alphabet, co[2])
    IN tabula.alphabet[((IF tabula.reverse THEN t - k ELSE t + k) % n) + 1]

----------------------------------------------------------------------------
(* Vigenere and Autokey.  Vigenere's encrypt and decrypt are followed one  *)
(* iteration of zip(text, self.__keystream()) at a time: a call in         *)
(* progress holds the characters joined so far, the number of keystream   *)
(* characters consumed, and the line the keystream generator stands at.    *)

Running(out, used) == [exc |-> "Running", val |-> out, used |-> used, gen |-> "while"]
Done(out, used) == [exc |-> "None", val |-> out, used |-> used]

\* the c-th character (c from 0) that __keystream yields, for a non-empty key
Vigenere__keystream(slf, c) == slf.key[(c % Len(slf.key)) + 1]

\* Autokey.encrypt: zip(text, self.key + text)
Autokey_encrypt_fn(slf, t) ==
    LET tabula == TabulaRecta(slf.alphabet, FALSE)
        stream == slf.key \o t
    IN Ok([i \in 1..Len(t) |-> TabulaRecta_getitem(tabula, <<t[i], stream[i]>>)])

\* the list key after m characters have been recovered, and the m characters
RECURSIVE Autokey_plain(_, _, _)
Autokey_plain(slf, t, m) ==
    IF m = 0 THEN <<>>
    ELSE LET plain == Autokey_plain(slf, t, m - 1)
             key == slf.key \o plain
         IN Append(plain, TabulaRecta_getitem(TabulaRecta(slf.alphabet, TRUE),
                                              <<t[m], key[m]>>))

\* a decrypt whose key were self.key itself: the appends would reach the instance
Autokey_decrypt_aliased(slf, t) ==
    IF t # <<>> /\ slf.key = <<>>
    THEN [self |-> slf, result |-> Raise("IndexError")]
    ELSE [self |-> [slf EXCEPT !.key = slf.key \o Autokey_plain(slf, t, Len(t))],
          result |-> Ok(Autokey_plain(slf, t, Len(t)))]
\* Autokey.decrypt: the instance as the call leaves it, and what it returns;
\* key = list(self.key) is a copy, the appends do not reach self.key
Autokey_decrypt_call(slf, t) ==
    IF t # <<>> /\ slf.key = <<>>
    THEN [self |-> slf, result |-> Raise("IndexError")]      \* key[i] on an empty list
    ELSE [self |-> slf, result |-> Ok(Autokey_plain(slf, t, Len(t)))]

lemon == <<"l","e","m","o","n">>
attackatdawn == <<"a","t","t","a","c","k","a","t","d","a","w","n">>
lxfopvefrnhr == <<"l","x","f","o","p","v","e","f","r","n","h","r">>
VigenereKeys == { lemon, <<"b">>, <<"e","a">>, <<>>, <<"z">>, <<"A">> }
VigenereAlphabets == { ascii_lowercase, abcde }
VigenereChars == {"a", "d", "e", "z"}
VigenereTexts(slf) ==
    {t \in TextsOver(VigenereChars \cap Range(slf.alphabet), MaxLen) \cup {attackatdawn} :
        Range(t) \subseteq Range(slf.alphabet)}

\* Vigenere.__init__, which Autokey inherits
Vigenere__init__ ==
    /\ pc = "start"
    /\ \E class \in {"Vigenere", "Autokey"}, key \in VigenereKeys,
          alphabet \in VigenereAlphabets :
          IF \E i \in 1..Len(key) : key[i] \notin Range(alphabet) THEN Failed
          ELSE Fresh([class |-> class, key |-> key, alphabet |-> alphabet])

\* a call of encrypt, on a new instance or after an earlier call returned
Vigenere_encrypt ==
    /\ pc \in {"constructed", "decrypted"}
    /\ self.class = "Vigenere"
    /\ \E t \in VigenereTexts(self) : text' = t
    /\ enc' = Running(<<>>, 0)
    /\ dec' = NotCalled
    /\ pc' = "encrypting"
    /\ UNCHANGED <<self, enc2>>

Vigenere_decrypt ==
    /\ pc = "encrypted"
    /\ self.class = "Vigenere"
    /\ IsOk(enc)
    /\ dec' = Running(<<>>, 0)
    /\ pc' = "decrypting"
    /\ UNCHANGED <<self, text, enc, enc2>>

\* one iteration of zip: the next text character, then the next keystream
\* character, through the tabula
Vigenere_zip_next ==
    /\ pc \in {"encrypting", "decrypting"}
    /\ self.class = "Vigenere"
    /\ self.key # <<>>
    /\ LET cur == IF pc = "encrypting" THEN enc ELSE dec
           src == IF pc = "encrypting" THEN text ELSE enc.val
           tabula == TabulaRecta(self.alphabet, pc = "decrypting")
           i == Len(cur.val)
           nxt == Running(Append(cur.val,
                      TabulaRecta_getitem(tabula,
                          <<src[i + 1], Vigenere__keystream(self, cur.used)>>)),
                      cur.used + 1)
       IN /\ i < Len(src)
          /\ IF pc = "encrypting" THEN enc' = nxt /\ dec' = dec
             ELSE dec' = nxt /\ enc' = enc
    /\ UNCHANGED <<self, pc, text, enc2>>

\* the text is used up: zip stops and the characters are joined
Vigenere_join ==
    /\ pc \in {"encrypting", "decrypting"}
    /\ self.class = "Vigenere"
    /\ IF pc = "encrypting"
       THEN /\ Len(enc.val) = Len(text)
            /\ enc' = Done(enc.val, enc.used)
            /\ dec' = dec
            /\ pc' = "encrypted"
       ELSE /\ Len(dec.val) = Len(enc.val)
            /\ dec' = Done(dec.val, dec.used)
            /\ enc' = enc
            /\ pc' = "decrypted"
    /\ UNCHANGED <<self, text, enc2>>

\* next() on the keystream of an empty key: while True enters the for loop,
\* which ends at once without a yield, and control is back at while True
Vigenere__keystream_spin ==
    /\ pc \in {"encrypting", "decrypting"}
    /\ self.class = "Vigenere"
    /\ self.key = <<>>
    /\ LET cur == IF pc = "encrypting" THEN enc ELSE dec
           src == IF pc = "encrypting" THEN text ELSE enc.val
           nxt == [cur EXCEPT !.gen = IF cur.gen = "while" THEN "for" ELSE "while"]
       IN /\ Len(cur.val) < Len(src)
          /\ IF pc = "encrypting" THEN enc' = nxt /\ dec' = dec
             ELSE dec' = nxt /\ enc' = enc
    /\ UNCHANGED <<self, pc, text, enc2>>

\* a call that has begun keeps running: its next step is taken when there is one
Vigenere_running == Vigenere_zip_next \/ Vigenere_join \/ Vigenere__keystream_spin

Autokey_encrypt ==
    /\ pc \in {"constructed", "decrypted"}
    /\ self.class = "Autokey"
    /\ \E t \in VigenereTexts(self) :
          /\ text' = t
          /\ enc' = Autokey_encrypt_fn(self, t)
    /\ dec' = NotCalled
    /\ pc' = "encrypted"
    /\ UNCHANGED <<self, enc2>>

Autokey_decrypt ==
    /\ pc = "encrypted"
    /\ self.class = "Autokey"
    /\ IsOk(enc)
    /\ self' = Autokey_decrypt_call(self, enc.val).self
    /\ dec' = Autokey_decrypt_call(self, enc.val).result
    /\ pc' = "decrypted"
    /\ UNCHANGED <<text, enc, enc2>>

NextVigenere ==
    \/ Vigenere__init__ \/ Vigenere_encrypt \/ Vigenere_decrypt
    \/ Vigenere_zip_next \/ Vigenere_join \/ Vigenere__keystream_spin
    \/ Autokey_encrypt \/ Autokey_decrypt

----------------------------------------------------------------------------
(* util.frequency_analysis.  A frequency count / float(total) is kept as   *)
(* the pair of its numerator and denominator.                              *)

MaxNgram == 4      \* largest n-gram length tried on the short texts

\* total is counted wrongly: the length of the text, not the number of n-grams
frequency_analysis_bylen(t, ngram) ==
    LET starts == 0..(Len(t) - ngram)
    IN Ok([gram \in {Slice(t, i, i + ngram) : i \in starts} |->
              [num |-> Cardinality({i \in starts : Slice(t, i, i + ngram) = gram}),
               den |-> Len(t)]])
\* freqs[text[i:i + ngram]] += 1 over range(len(text) - ngram + 1), then each
\* count divided by total
frequency_analysis(t, ngram) ==
    LET starts == 0..(Len(t) - ngram)
        total == Cardinality(starts)
    IN Ok([gram \in {Slice(t, i, i + ngram) : i \in starts} |->
              [num |-> Cardinality({i \in starts : Slice(t, i, i + ngram) = gram}),
               den |-> total]])

mississipi == <<"m","i","s","s","i","s","s","i","p","i">>
FreqTexts == TextsOver({"a", "b"}, MaxLen)
                 \cup {SubSeq(mississipi, 1, m) : m \in 0..Len(mississipi)}
Ngrams == 0..MaxNgram \cup {Len(mississipi), Len(mississipi) + 1}

frequency_analysis_call ==
    /\ pc = "start"
    /\ \E t \in FreqTexts, ngram \in Ngrams :
          /\ self' = [class |-> "frequency_analysis", ngram |-> ngram]
          /\ text' = t
          /\ enc' = frequency_analysis(t, ngram)
    /\ pc' = "returned"
    /\ UNCHANGED <<dec, enc2>>

NextFreq == frequency_analysis_call

----------------------------------------------------------------------------
(* Any cipher, called again and again: one instance, a first call, other   *)
(* calls after it, and the first call made once more.  A call is its       *)
(* method, its argument and the interpreter it runs on; it leaves the      *)
(* instance as the method leaves it and a result.                          *)

MaxCallLen == 1    \* longest argument of these calls

\* the method of the instance's class applied to t: the instance afterwards
\* and the value returned or the exception raised
Cipher_call(slf, method, t, pep479) ==
    LET unchanged(result) == [self |-> slf, result |-> result]
        encrypting == method = "encrypt"
    IN CASE slf.class \in {"Bifid", "Trifid"} ->
               unchanged(IF encrypting THEN Bifid_encrypt_fn(slf, t)
                         ELSE Bifid_decrypt_fn(slf, t))
         [] slf.class = "RailFence" ->
               unchanged(IF encrypting THEN RailFence_encrypt_fn(slf, t)
                         ELSE RailFence_decrypt_fn(slf, t))
         [] slf.class = "Column" ->
               unchanged(IF encrypting THEN Column_encrypt_fn(slf, t)
                         ELSE Column_decrypt_fn(slf, t))
         [] slf.class \in MonoClasses ->
               unchanged(IF encrypting THEN Mono_encrypt_fn(slf, t)
                         ELSE Mono_decrypt_fn(slf, t))
         [] slf.class = "TwoSquare" ->
               unchanged(IF encrypting THEN TwoSquare_encrypt_fn(slf, t)
                         ELSE TwoSquare_decrypt_fn(slf, t))
         [] slf.class = "FourSquare" ->
               unchanged(IF encrypting THEN FourSquare_encrypt_fn(slf, t)
                         ELSE FourSquare_decrypt_fn(slf, t))
         [] slf.class = "Playfair" ->
               unchanged(IF encrypting THEN Playfair_encrypt_fn(slf, t, pep479)
                         ELSE Playfair_decrypt_fn(slf, t))
         [] slf.class = "Hill" ->
               unchanged(IF encrypting THEN Hill_encrypt_fn(slf, t)
                         ELSE Hill_decrypt_fn(slf, t))
         [] slf.class = "Autokey" ->
               IF encrypting THEN unchanged(Autokey_encrypt_fn(slf, t))
               ELSE Autokey_decrypt_call(slf, t)

CallClasses == {"Bifid", "Trifid", "RailFence", "Column", "TwoSquare", "FourSquare",
                "Playfair", "Hill", "Autokey"} \cup MonoClasses
CallChars == {"a", "b"}
\* Hill takes whole chunks, Hill and Autokey characters of their alphabet
CallTexts(slf) ==
    {t \in TextsOver(CallChars, MaxCallLen) :
        /\ slf.class = "Hill" => Len(t) % MatrixRows(slf.key) = 0
        /\ slf.class \in {"Hill", "Autokey"} => Range(t) \subseteq Range(slf.alphabet)}

\* the first call on a new instance
Call_first ==
    /\ pc = "constructed"
    /\ self.class \in CallClasses
    /\ \E method \in {"encrypt", "decrypt"}, t \in CallTexts(self),
          pep479 \in (IF self.class = "Playfair" THEN BOOLEAN ELSE {TRUE}) :
          LET call == Cipher_call(self, method, t, pep479)
          IN /\ self' = call.self
             /\ text' = t
             /\ enc' = [method |-> method, pep479 |-> pep479, result |-> call.result]
    /\ pc' = "called"
    /\ UNCHANGED <<dec, enc2>>

\* any other call after it, on the same interpreter
Call_again ==
    /\ pc \in {"called", "recalled"}
    /\ self.class \in CallClasses
    /\ \E method \in {"encrypt", "decrypt"}, t \in CallTexts(self) :
          LET call == Cipher_call(self, method, t, enc.pep479)
          IN /\ self' = call.self
             /\ dec' = [method |-> method, text |-> t, result |-> call.result]
    /\ pc' = "recalled"
    /\ UNCHANGED <<text, enc, enc2>>

\* the first call made once more
Call_repeat ==
    /\ pc = "recalled"
    /\ self.class \in CallClasses
    /\ LET call == Cipher_call(self, enc.method, text, enc.pep479)
       IN /\ self' = call.self
          /\ enc2' = [method |-> enc.method, pep479 |-> enc.pep479, result |-> call.result]
    /\ pc' = "repeated"
    /\ UNCHANGED <<text, enc, dec>>

NextCalls ==
    \/ Bifid__init__ \/ Trifid__init__ \/ RailFence__init__ \/ Column__init__
    \/ Affine__init__ \/ Atbash__init__ \/ Caesar__init__ \/ Rot13__init__
    \/ KamaSutra__init__ \/ Keyword__init__ \/ Simple__init__
    \/ TwoSquare__init__ \/ FourSquare__init__
    \/ Playfair__init__ \/ Hill__init__ \/ Vigenere__init__
    \/ Call_first \/ Call_again \/ Call_repeat
    \/ Vigenere_encrypt \/ Vigenere_decrypt \/ Vigenere_running

Init ==
    /\ self = NoInstance
    /\ pc = "start"
    /\ text = <<>>
    /\ enc = NotCalled
    /\ dec = NotCalled
    /\ enc2 = NotCalled

NextBifid == Bifid__init__ \/ Trifid__init__ \/ Bifid_encrypt \/ Bifid_decrypt
SpecBifid == Init /\ [][NextBifid]_vars

\* C1: Bifid and Trifid round-trip: for every key, every period and every
\* text over the key's characters (the empty text and texts whose length is
\* a multiple of the period included), decrypt(encrypt(T)) returns T
\* without raising.
C1_RoundTrip ==
    (pc = "decrypted" /\ self.class \in {"Bifid", "Trifid"}) => dec = Ok(text)

SpecRailFence == Init /\ [][NextRailFence]_vars

\* C2: RailFence round-trip: for every key >= 1 and every text T (lengths
\* 0, 1, 2, shorter than the number of rails, not a multiple of the period
\* 2*(key-1)), decrypt(encrypt(T)) = T; with key = 1 encrypt and decrypt
\* both return their argument unchanged.
C2_RailFenceRoundTrip ==
    self.class = "RailFence" =>
        /\ pc = "decrypted" => dec = Ok(text)
        /\ (self.key = 1 /\ pc \in {"encrypted", "decrypted"}) => enc = Ok(text)
        /\ (self.key = 1 /\ pc = "decrypted") => dec = Ok(enc.val)

C2_Witness ==
    /\ self.class = "RailFence" /\ pc = "decrypted"
    /\ self.key = 3 /\ Len(text) = 7
    /\ enc.val # text
    /\ dec = Ok(text)

SpecColumn == Init /\ [][NextColumn]_vars

\* C3: Column round-trip: encrypt(T) has the smallest length that is a
\* multiple of len(key) and not below len(T); decrypt(encrypt(T)) is T with
\* its trailing pad characters stripped; key "CIPHER", pad "x" and
\* "thisisanexample" give "tapiaxsxxhnlieesmx", which decrypts back.
C3_ColumnRoundTrip ==
    (self.class = "Column" /\ pc \in {"encrypted", "decrypted"}) =>
        LET k == Len(self.key)
            stripped == CHOOSE m \in 0..Len(text) :
                           /\ \A i \in (m + 1)..Len(text) : text[i] = self.pad[1]
                           /\ (m > 0 => text[m] # self.pad[1])
        IN /\ IsOk(enc)
           /\ Len(enc.val) % k = 0
           /\ Len(enc.val) >= Len(text)
           /\ Len(enc.val) - Len(text) < k
           /\ pc = "decrypted" => dec = Ok(SubSeq(text, 1, stripped))
           /\ (self.key = CIPHER /\ self.pad = <<"x">> /\ text = thisisanexample) =>
                 /\ enc = Ok(tapiaxsxxhnlieesmx)
                 /\ pc = "decrypted" => dec = Ok(thisisanexample)

C3_Witness ==
    /\ self.class = "Column" /\ pc = "decrypted"
    /\ self.key = CIPHER /\ self.pad = <<"x">> /\ text = thisisanexample
    /\ enc = Ok(tapiaxsxxhnlieesmx)
    /\ dec = Ok(thisisanexample)

SpecMono == Init /\ [][NextMono]_vars

\* C4: KamaSutra is reciprocal: for every key the constructor accepts (of
\* any length, even or odd) and every text T, encrypt(encrypt(T)) = T and
\* decrypt returns the plaintext of every ciphertext encrypt produced.
C4_KamaSutraReciprocal ==
    self.class = "KamaSutra" =>
        /\ pc = "reencrypted" => enc2 = Ok(text)
        /\ pc = "decrypted" => dec = Ok(text)

\* C8: monoalphabetic case preservation and pass-through: the output is as
\* long as the input; an uppercase character c yields the uppercase of
\* mapping[lowercase(c)], a lowercase character the lowercase mapped
\* character, and a character whose lowercase form is not in the mapping
\* is output unchanged.  Checked for encrypt and for decrypt.
C8_MonoCasePreserved ==
    (self.class \in MonoClasses /\ pc \in {"encrypted", "decrypted", "reencrypted"}) =>
        LET Rule(mapping, in, out) ==
                /\ Len(out) = Len(in)
                /\ \A i \in 1..Len(in) :
                      /\ (in[i] \in Range(ascii_uppercase) /\ lower(in[i]) \in DOMAIN mapping)
                            => out[i] = upper(mapping[lower(in[i])])
                      /\ (in[i] \in Range(ascii_lowercase) /\ in[i] \in DOMAIN mapping)
                            => out[i] = lower(mapping[in[i]])
                      /\ lower(in[i]) \notin DOMAIN mapping => out[i] = in[i]
        IN /\ IsOk(enc) /\ Rule(self.encrypt_mapping, text, enc.val)
           /\ pc = "decrypted" => (IsOk(dec) /\ Rule(self.decrypt_mapping, enc.val, dec.val))

C8_Witness ==
    /\ self.class = "Caesar" /\ self.key = 3 /\ pc = "decrypted"
    /\ text = <<"B", "a", " ">>
    /\ enc = Ok(<<"E", "d", " ">>)
    /\ dec = Ok(text)

\* C9: the Keyword mapping is a permutation: encrypt_mapping sends the i-th
\* lowercase letter to the i-th element of the de-duplicated key + alphabet,
\* it is a bijection of the 26 lowercase letters onto themselves,
\* decrypt_mapping is its inverse, and decrypt(encrypt(T)) = T, for every
\* key the constructor accepts (uppercase, repeated letters, non-letters).
C9_KeywordPermutation ==
    (self.class = "Keyword" /\ pc # "failed") =>
        LET letters == Range(ascii_lowercase)
            m == Dedup(self.key \o ascii_lowercase)
        IN /\ DOMAIN self.encrypt_mapping = letters
           /\ \A i \in 1..26 : self.encrypt_mapping[ascii_lowercase[i]] = m[i]
           /\ {self.encrypt_mapping[c] : c \in letters} = letters
           /\ DOMAIN self.decrypt_mapping = letters
           /\ \A c \in letters : self.decrypt_mapping[self.encrypt_mapping[c]] = c
           /\ pc = "decrypted" => dec = Ok(text)

\* C10: Affine construction fails eagerly: when a shares a factor with the
\* alphabet length the constructor raises before either mapping is built,
\* so no such instance reaches encrypt or decrypt; when gcd(a, L) = 1
\* construction succeeds.
C10_AffineEager ==
    self.class = "Affine" =>
        LET a == self.key[1]
            L == Len(self.alphabet)
            gcd == CHOOSE d \in 1..L :
                      /\ a % d = 0 /\ L % d = 0
                      /\ \A e \in (d + 1)..L : ~(a % e = 0 /\ L % e = 0)
        IN /\ pc = "failed" =>
                 /\ gcd # 1
                 /\ "encrypt_mapping" \notin DOMAIN self
                 /\ "decrypt_mapping" \notin DOMAIN self
           /\ pc # "failed" =>
                 /\ gcd = 1
                 /\ "encrypt_mapping" \in DOMAIN self
                 /\ "decrypt_mapping" \in DOMAIN self

C10_Witness ==
    /\ self.class = "Affine" /\ pc = "failed"
    /\ self.key[1] = 2 /\ Len(self.alphabet) = 26
    /\ "decrypt_mapping" \notin DOMAIN self

SpecTwoSquare == Init /\ [][NextTwoSquare]_vars
SpecFourSquare == Init /\ [][NextFourSquare]_vars

\* C5: TwoSquare is self-inverse in both arrangements: for every pair of
\* squares over one character set, horizontal or not, and every text over
\* it (an unpaired last character is copied), encrypt(encrypt(T)) = T and
\* decrypt gives what encrypt gives on the same argument.
C5_TwoSquareInvolution ==
    self.class = "TwoSquare" =>
        /\ pc = "reencrypted" => enc2 = Ok(text)
        /\ pc = "decrypted" => dec = Ok(text)
        /\ (pc = "reencrypted" /\ dec # NotCalled) => dec = enc2
        /\ (pc \in {"encrypted", "decrypted", "reencrypted"} /\ Len(text) % 2 = 1) =>
              (IsOk(enc) /\ enc.val[Len(text)] = text[Len(text)])

C5_Witness ==
    /\ self.class = "TwoSquare" /\ pc = "reencrypted"
    /\ self.horizontal /\ self.keys[1] # self.keys[2]
    /\ Len(text) = 3
    /\ SubSeq(enc.val, 1, 2) # SubSeq(text, 1, 2)
    /\ dec = Ok(text) /\ enc2 = Ok(text)

\* C6: FourSquare round-trip: each digraph (a, b) encrypts to
\* (key1[row(a), col(b)], key2[row(b), col(a)]), and decrypt(encrypt(T)) is
\* T for an even length and T followed by the padding character for an odd one.
C6_FourSquareRoundTrip ==
    (self.class = "FourSquare" /\ pc \in {"encrypted", "decrypted"}) =>
        LET padded == IF Len(text) % 2 = 1 THEN text \o self.padding ELSE text
            row(c) == PolybiusCoord(self.alphabet, c)[1]
            col(c) == PolybiusCoord(self.alphabet, c)[2]
        IN /\ IsOk(enc)
           /\ Len(enc.val) = Len(padded)
           /\ \A i \in 1..(Len(padded) \div 2) :
                 /\ enc.val[2 * i - 1] =
                       PolybiusChar(self.keys[1], <<row(padded[2 * i - 1]), col(padded[2 * i])>>)
                 /\ enc.val[2 * i] =
                       PolybiusChar(self.keys[2], <<row(padded[2 * i]), col(padded[2 * i - 1])>>)
           /\ pc = "decrypted" => dec = Ok(padded)

C6_Witness ==
    /\ self.class = "FourSquare" /\ pc = "decrypted"
    /\ self.keys[1] # self.keys[2] /\ self.keys[1] # self.alphabet
    /\ Len(text) = 3
    /\ enc.val # text \o self.padding
    /\ dec = Ok(text \o self.padding)

SpecPlayfair == Init /\ [][NextPlayfair]_vars

\* the digraph-normalised plaintext: the breaker between the two identical
\* letters of a pair, the padding after an unpaired last letter
RECURSIVE DigraphNormal(_, _, _)
DigraphNormal(s, breaker, padding) ==
    IF s = <<>> THEN <<>>
    ELSE IF Len(s) = 1 THEN <<s[1], padding>>
    ELSE IF s[1] = s[2] THEN <<s[1], breaker>> \o DigraphNormal(Tail(s), breaker, padding)
    ELSE <<s[1], s[2]>> \o DigraphNormal(SubSeq(s, 3, Len(s)), breaker, padding)

\* C7: Playfair round-trip: for every instance and plaintext T, encrypt(T)
\* is a ciphertext decrypt accepts (even length, no digraph of two identical
\* letters) and decrypt(encrypt(T)) is the digraph-normalised plaintext: T
\* after omitted-letter substitution and removal of the characters outside
\* the alphabet, with the breaker between the identical letters of a pair
\* and the padding appended to an incomplete final digraph.
C7_PlayfairRoundTrip ==
    (self.class = "Playfair" /\ pc \in {"encrypted", "decrypted"}) =>
        /\ IsOk(enc)
        /\ Len(enc.val) % 2 = 0
        /\ \A k \in 1..(Len(enc.val) \div 2) : enc.val[2 * k - 1] # enc.val[2 * k]
        /\ pc = "decrypted" =>
              dec = Ok(DigraphNormal(
                          FilterAlphabet(SubstituteOmitted(self.omitted, str_lower(text)),
                                         self.alphabet),
                          self.breaker[1], self.padding[1]))

SpecHill == Init /\ [][NextHill]_vars

\* C11: Hill chunk arithmetic: for every key matrix K of side n invertible
\* modulo the alphabet length L and every text T over the alphabet whose
\* length is a multiple of n, encrypt replaces each n-character chunk, read
\* as a column vector v of alphabet positions, by the letters at positions
\* (K*v) mod L (key "ddcf" turns "help" into "hiat"), and decrypt, applying
\* the inverse matrix in the same way, returns T.
C11_HillChunks ==
    (self.class = "Hill" /\ pc \in {"encrypted", "decrypted"}) =>
        LET n == Len(self.key)
            L == Len(self.alphabet)
            pos(c) == index(self.alphabet, c)
            Apply(K, in, out) ==
                /\ Len(out) = Len(in)
                /\ \A q \in 0..((Len(in) \div n) - 1), r \in 1..n :
                      out[q * n + r] =
                          self.alphabet[(SumSeq([j \in 1..n |-> K[r][j] * pos(in[q * n + j])])
                                            % L) + 1]
        IN /\ IsOk(enc) /\ Apply(self.key, text, enc.val)
           /\ (self.key = << <<3, 3>>, <<2, 5>> >> /\ L = 26 /\ text = help) => enc = Ok(hiat)
           /\ pc = "decrypted" =>
                 /\ IsOk(dec) /\ Apply(self.invkey, enc.val, dec.val)
                 /\ dec = Ok(text)

C11_Witness ==
    /\ self.class = "Hill" /\ pc = "decrypted"
    /\ self.key = << <<3, 3>>, <<2, 5>> >> /\ Len(self.alphabet) = 26
    /\ text = help /\ enc = Ok(hiat) /\ dec = Ok(help)

SpecVigenere == Init /\ [][NextVigenere]_vars

\* C12: Autokey round-trip: for every key the constructor accepts and every
\* text T over the alphabet, encrypt combines character i of T with element
\* i of the keystream key + T, and decrypt(encrypt(T)) returns T.
C12_AutokeyRoundTrip ==
    (self.class = "Autokey" /\ pc \in {"encrypted", "decrypted"}) =>
        LET n == Len(self.alphabet)
            pos(c) == index(self.alphabet, c)
            stream == self.key \o text
        IN /\ IsOk(enc)
           /\ Len(enc.val) = Len(text)
           /\ \A i \in 1..Len(text) :
                 enc.val[i] = self.alphabet[((pos(text[i]) + pos(stream[i])) % n) + 1]
           /\ pc = "decrypted" => dec = Ok(text)

SpecVigenereLive == SpecVigenere /\ WF_vars(Vigenere_running)

\* C17: Vigenere termination: for every instance the constructor accepts
\* (every key whose characters all lie in the alphabet) and every finite
\* text over the alphabet, a call of encrypt or decrypt returns, having
\* consumed exactly len(text) keystream characters.
C17_VigenereTerminates ==
    /\ [](self.class = "Vigenere" =>
             /\ pc \in {"encrypted", "decrypting", "decrypted"} => enc.used = Len(text)
             /\ pc = "decrypted" => dec.used = Len(enc.val))
    /\ (self.class = "Vigenere" /\ pc = "encrypting") ~> (pc = "encrypted")
    /\ (self.class = "Vigenere" /\ pc = "decrypting") ~> (pc = "decrypted")

\* C13: Playfair decryption rejects bogus ciphertext: for every instance
\* and every ciphertext, decrypt raises ValueError and returns no plaintext
\* when the ciphertext length is odd or when one of its digraphs, after
\* omitted-letter substitution, consists of two identical letters.
C13_PlayfairRejects ==
    (self.class = "Playfair" /\ pc = "deciphered") =>
        LET sub(c) == IF c \in DOMAIN self.omitted THEN self.omitted[c] ELSE <<c>>
            bogus == \/ Len(text) % 2 = 1
                     \/ \E k \in 1..(Len(text) \div 2) : sub(text[2 * k - 1]) = sub(text[2 * k])
        IN bogus => (dec.exc = "ValueError" /\ dec.val = <<>>)

C13_Witness ==
    /\ self.class = "Playfair" /\ pc = "deciphered"
    /\ text = <<"a","l","i","j">>
    /\ "j" \in DOMAIN self.omitted
    /\ dec = Raise("ValueError")

\* C14: FourSquare.decrypt fails with an error for every ciphertext of odd
\* length: it never returns a plaintext computed from an odd-length
\* ciphertext.
C14_FourSquareOddFails ==
    (self.class = "FourSquare" /\ pc = "deciphered" /\ Len(text) % 2 = 1) => Raised(dec)

SpecFreq == Init /\ [][NextFreq]_vars

RECURSIVE SumNum(_, _)
SumNum(f, S) == IF S = {} THEN 0
                ELSE LET g == CHOOSE x \in S : TRUE IN f[g].num + SumNum(f, S \ {g})

C19_RailFenceRows ==
    (self.class = "RailFence" /\ self.key >= 2 /\ pc = "decrypted") =>
        LET k == self.key
            n == Len(enc.val)
            P == 2 * (k - 1)
            \* the least q with q * P >= a
            up(a) == CHOOSE q \in (-n - P)..(n + P) : q * P >= a /\ (q - 1) * P < a
            rows == RailFence_rows(k, enc.val)
            filled(r) == Cardinality({j \in 0..(n - 1) : RailOf(k, j) = r})
            formula(r) == IF r = 0 THEN up(n) ELSE up(n - r) + up(n - r - 2 * (k - r - 1))
        IN /\ n = Len(text)
           /\ \A r \in 0..(k - 1) : Len(rows[r + 1]) = filled(r)
           /\ \A r \in 0..(k - 2) : Len(rows[r + 1]) = formula(r) /\ formula(r) >= 0
           /\ \A r \in 1..(k - 1) :
                 /\ RailFence_rowstart(k, n, r - 1) <= RailFence_rowstart(k, n, r)
                 /\ RailFence_rowstart(k, n, r) <= n
           /\ SumSeq([r \in 1..k |-> Len(rows[r])]) = n
           /\ IsOk(dec)

C19_Witness ==
    /\ self.class = "RailFence" /\ pc = "decrypted"
    /\ self.key = 4 /\ Len(text) = 10
    /\ [r \in 1..4 |-> Len(RailFence_rows(4, enc.val)[r])] = <<2, 3, 3, 2>>
    /\ IsOk(dec)

\* C18: Playfair.encrypt is total: for every instance and every plaintext
\* (a last pair of one repeated letter, a text that ends in or consists of
\* the padding letter, runs of three or more identical letters), the
\* digraph splitter finds the character it asks for after breaking an
\* identical pair, and encrypt returns an even-length ciphertext without
\* raising.
C18_PlayfairEncryptTotal ==
    (self.class = "Playfair" /\ pc = "encrypted") =>
        (enc.exc = "None" /\ Len(enc.val) % 2 = 0)

\* C20: Playfair omitted-letter substitution comes first: each occurrence
\* of an omitted letter, lowercase or uppercase, is replaced by its
\* substitute before the text is split into digraphs, so replacing the
\* omitted letters of the plaintext by their substitutes never changes
\* encrypt's result, and no omitted letter is silently dropped.
C20_PlayfairOmittedFirst ==
    (self.class = "Playfair" /\ pc = "encrypted") =>
        LET replaced == [i \in 1..Len(text) |->
                            IF lower(text[i]) \in DOMAIN self.omitted
                                /\ Len(self.omitted[lower(text[i])]) = 1
                            THEN self.omitted[lower(text[i])][1] ELSE text[i]]
        IN \E pep479 \in BOOLEAN : enc = Playfair_encrypt_fn(self, replaced, pep479)

SpecCalls == Init /\ [][NextCalls]_vars

====
